---------------------------- MODULE Spec2Model ----------------------------
(***************************************************************************)
(* A model of es6-dev-server's ModuleMiddleware (src/index.js, lines       *)
(* 1-158): the request handler with its response cache and file watches,   *)
(* the import rewriter (resolveImports) and the resolver (resolveModule,   *)
(* packageFilter).                                                         *)
(*                                                                         *)
(* Text is modelled by TLA+ strings: offsets are JavaScript's (0-based,    *)
(* end exclusive) and slice, endsWith and indexOf are computed on the      *)
(* characters.  acorn is modelled on a fragment of the module grammar      *)
(* (the statement shapes of ParseStatement, written without optional       *)
(* white space and without escapes in string literals); resolve.sync on    *)
(* one served directory with one installed package; sha1 as a              *)
(* collision-free digest.  The host is POSIX (path.sep is "/").            *)
(***************************************************************************)
EXTENDS Integers, Sequences, FiniteSets, TLC

VARIABLES
  disk,      \* the served files: absolute path -> [exists, data]
  manifest,  \* package.json of the installed package: field -> value
  cache,     \* this.cache: property key -> Undefined | Null | a Cached
  watchers,  \* pathname -> number of armed fs.watch watchers on its file
  pending,   \* pathname -> armed watchers whose callback is queued
  req,       \* the request last given to middleware
  res,       \* its response object: the calls made on it, in order
  handled,   \* what handleRequest returned for it
  nextCalls, \* how many times middleware called next() for it
  reads,     \* the outcomes of the reads of files handleRequest made for it
  code,      \* rewriter run: the source text given to resolveImports
  out        \* rewriter run: what resolveImports returned

vars == <<disk, manifest, cache, watchers, pending, req, res, handled,
          nextCalls, reads, code, out>>

serverVars == <<cache, watchers, pending, req, res, handled, nextCalls, reads>>

-----------------------------------------------------------------------------
(* Bounds of the model. *)

\* Longest module, in statements, given to the rewriter run.
MaxStmts == 2

\* Most watchers armed at a time, over all files.
MaxWatchers == 2

\* The longest source text patches are applied to.
MaxSrcLen == 4

\* The most patches applied to one source text.
MaxPatches == 3

-----------------------------------------------------------------------------
(* JavaScript strings. *)

slice(s, from, to) == SubSeq(s, from + 1, to)

startsWithAt(s, i, t) ==
  /\ i >= 0
  /\ i + Len(t) <= Len(s)
  /\ SubSeq(s, i + 1, i + Len(t)) = t

endsWith(s, t) == Len(t) <= Len(s) /\ startsWithAt(s, Len(s) - Len(t), t)

\* The positions at which t occurs in s.
Occurrences(s, t) == {i \in 0..(Len(s) - Len(t)) : startsWithAt(s, i, t)}

Min(S) == CHOOSE m \in S : \A n \in S : m <= n

Max(S) == CHOOSE m \in S : \A n \in S : m >= n

indexOf(s, t) == IF Occurrences(s, t) = {} THEN -1 ELSE Min(Occurrences(s, t))

lastIndexOf(s, t) ==
  IF Occurrences(s, t) = {} THEN -1 ELSE Max(Occurrences(s, t))

\* JSON.stringify of a string without characters that need an escape.
JSONstringify(s) == "\"" \o s \o "\""

\* JavaScript values that may be undefined, null, a string or an object are
\* records tagged with their type.
Undefined == [type |-> "undefined"]

Null == [type |-> "null"]

Str(s) == [type |-> "string", value |-> s]

\* What `if (v)` and `!v` test.
Truthy(v) ==
  /\ v.type \notin {"undefined", "null"}
  /\ ~(v.type = "string" /\ v.value = "")

\* o[k] of an object held as a function from its own keys.
Get(o, k) == IF k \in DOMAIN o THEN o[k] ELSE Undefined

\* o after o[k] = v.
Put(o, k, v) == [x \in DOMAIN o \cup {k} |-> IF x = k THEN v ELSE o[x]]

-----------------------------------------------------------------------------
(* acorn.parse(code, { sourceType: 'module' }) and walk.simple, on the     *)
(* statement shapes below.  A node is [type, start, end, source]; source   *)
(* is the node's `source` child, [type, start, end, value], or NoSource    *)
(* where acorn gives null.                                                 *)

NoSource == [type |-> "null", start |-> 0, end |-> 0, value |-> ""]

Quotes == {"'", "\""}

isQuoteAt(s, i) == \E q \in Quotes : startsWithAt(s, i, q)

\* A string literal opening at offset i; it closes at the next same quote.
ParseLiteral(s, i) ==
  LET q      == slice(s, i, i + 1)
      closes == {j \in (i + 1)..(Len(s) - 1) : slice(s, j, j + 1) = q}
  IN  IF ~isQuoteAt(s, i) \/ closes = {}
      THEN [ok |-> FALSE, source |-> NoSource]
      ELSE [ok |-> TRUE,
            source |-> [type  |-> "Literal",
                        start |-> i,
                        end   |-> Min(closes) + 1,
                        value |-> slice(s, i + 1, Min(closes))]]

ParseFailure ==
  [error |-> TRUE, end |-> 0, exports |-> {}, node |-> [type |-> "none"]]

ParsedNode(type, start, end, source, exports) ==
  [error |-> FALSE, end |-> end, exports |-> exports,
   node |-> [type |-> type, start |-> start, end |-> end, source |-> source]]

\* The statement of `type` opening at offset i whose source is the parsed
\* literal `lit`, closed by `close`.
SourceNode(s, i, type, exports, lit, close) ==
  IF lit.ok /\ startsWithAt(s, lit.source.end, close)
  THEN ParsedNode(type, i, lit.source.end + Len(close), lit.source, exports)
  ELSE ParseFailure

\* `<keyword><string literal>;` with the literal as the node's source.
ParseWithSource(s, i, keyword, type, exports) ==
  SourceNode(s, i, type, exports, ParseLiteral(s, i + Len(keyword)), ";")

\* `import(<string literal>);` or `import(a);`
ParseImportCall(s, i) ==
  IF isQuoteAt(s, i + 7)
  THEN SourceNode(s, i, "ImportExpression", {}, ParseLiteral(s, i + 7), ");")
  ELSE IF startsWithAt(s, i + 7, "a);")
  THEN ParsedNode("ImportExpression", i, i + 10,
                  [type |-> "Identifier", start |-> i + 7, end |-> i + 8,
                   value |-> ""], {})
  ELSE ParseFailure

\* One statement at offset i, with the names it exports.
ParseStatement(s, i) ==
  IF startsWithAt(s, i, "import(")
  THEN ParseImportCall(s, i)
  ELSE IF startsWithAt(s, i, "import ")
  THEN ParseWithSource(s, i, "import ", "ImportDeclaration", {})
  ELSE IF startsWithAt(s, i, "export * from ")
  THEN ParseWithSource(s, i, "export * from ", "ExportAllDeclaration", {})
  ELSE IF startsWithAt(s, i, "export {a} from ")
  THEN ParseWithSource(s, i, "export {a} from ", "ExportNamedDeclaration", {"a"})
  ELSE IF startsWithAt(s, i, "export {b} from ")
  THEN ParseWithSource(s, i, "export {b} from ", "ExportNamedDeclaration", {"b"})
  ELSE IF startsWithAt(s, i, "export {};")
  THEN ParsedNode("ExportNamedDeclaration", i, i + 10, NoSource, {})
  ELSE IF startsWithAt(s, i, "export default a;")
  THEN ParsedNode("ExportDefaultDeclaration", i, i + 17, NoSource, {"default"})
  ELSE IF startsWithAt(s, i, "a;")
  THEN ParsedNode("ExpressionStatement", i, i + 2, NoSource, {})
  ELSE ParseFailure

\* A parsed node before the parse of what follows it.
PrependNode(node, rest) ==
  IF rest.error THEN rest
  ELSE [error |-> FALSE, body |-> <<node>> \o rest.body]

\* The program's body from offset i on, `exported` being the names the
\* statements before i export: its nodes in document order, or the
\* SyntaxError acorn throws (an unexpected token, a duplicate export).
RECURSIVE ParseBody(_, _, _)
RECURSIVE ParseAfter(_, _, _)
ParseBody(s, i, exported) ==
  IF i >= Len(s) THEN [error |-> FALSE, body |-> <<>>]
  ELSE ParseAfter(s, exported, ParseStatement(s, i))

\* The body from the parsed statement `st` on.
ParseAfter(s, exported, st) ==
  IF st.error \/ st.exports \cap exported # {}
  THEN [error |-> TRUE, body |-> <<>>]
  ELSE PrependNode(st.node, ParseBody(s, st.end, exported \cup st.exports))

acornParse(s) == ParseBody(s, 0, {})

\* error.toString() of the SyntaxError acorn throws.
SyntaxErrorText == "SyntaxError: Unexpected token"

-----------------------------------------------------------------------------
(* The file system the server runs on: the served directory Root, whose    *)
(* files are in `disk`, and one installed package, Root/node_modules/pkg,  *)
(* whose manifest is in `manifest`.  There are no symbolic links.          *)

Root == "/srv"

PackageName == "pkg"

PackageDir == Root \o "/node_modules/" \o PackageName

\* The files of the installed package.
PackageFiles == {"main.js", "module.js", "next.js", "jn.js", "index.js"}

\* The entry file each manifest field names when the manifest defines it.
FieldTarget ==
  [main |-> "main.js", module |-> "module.js", jsnext |-> "next.js",
   jnext |-> "jn.js"]

\* Every manifest: each of the fields defined or absent.
Manifests ==
  {[f \in D |-> Str(FieldTarget[f])] : D \in SUBSET (DOMAIN FieldTarget)}

isFile(p) ==
  \/ p \in DOMAIN disk /\ disk[p].exists
  \/ \E f \in PackageFiles : p = PackageDir \o "/" \o f

\* POSIX: path.sep is "/", so unwin leaves its argument as it is.
unwin(s) == s

\* path.join(root, pathname) for a pathname that starts with "/" and has no
\* "." or ".." segment.
pathJoin(root, pathname) == root \o pathname

\* path.dirname of an absolute path below the root directory.
dirname(p) == slice(p, 0, lastIndexOf(p, "/"))

\* path.relative(from, to) for a `to` inside the directory `from`.
pathRelative(from, to) ==
  IF startsWithAt(to, 0, from \o "/")
  THEN slice(to, Len(from) + 1, Len(to))
  ELSE to

\* fs.realpathSync, in a tree without symbolic links.
realpathSync(p) == p

packageFilter(pkg) ==
  IF Truthy(Get(pkg, "module")) THEN Put(pkg, "main", Get(pkg, "module"))
  ELSE IF Truthy(Get(pkg, "jnext")) THEN Put(pkg, "main", Get(pkg, "jsnext"))
  ELSE pkg

ResolveFailure(x, basedir) ==
  [error |-> TRUE, path |-> "",
   message |-> "Error: Cannot find module '" \o x \o "' from '" \o basedir \o "'"]

Resolved(p) == [error |-> FALSE, path |-> p, message |-> ""]

\* A relative specifier: the file p as written, or with .js added.
resolveFile(x, basedir, p) ==
  IF isFile(p) THEN Resolved(p)
  ELSE IF isFile(p \o ".js") THEN Resolved(p \o ".js")
  ELSE ResolveFailure(x, basedir)

\* A package specifier: the package's file `main` names, or its index.js
\* when main is absent or names no file.
resolvePackage(x, basedir, main) ==
  IF main.type = "string" /\ Truthy(main)
     /\ isFile(PackageDir \o "/" \o main.value)
  THEN Resolved(PackageDir \o "/" \o main.value)
  ELSE IF isFile(PackageDir \o "/index.js")
  THEN Resolved(PackageDir \o "/index.js")
  ELSE ResolveFailure(x, basedir)

\* resolve.sync(x, { basedir, packageFilter }): a relative specifier is a
\* file of basedir; any other is a package of basedir/node_modules, entered
\* at the main of its filtered manifest.
resolveSync(x, basedir) ==
  IF startsWithAt(x, 0, "./")
  THEN resolveFile(x, basedir, basedir \o "/" \o slice(x, 2, Len(x)))
  ELSE IF x = PackageName /\ basedir = Root
  THEN resolvePackage(x, basedir, Get(packageFilter(manifest), "main"))
  ELSE ResolveFailure(x, basedir)

\* What resolveModule returns for the outcome r of resolve.sync: { error }
\* or { path }, the property not set being undefined.
moduleResult(moduleDirPath, r) ==
  IF r.error
  THEN [error |-> Str(r.message), path |-> Undefined]
  ELSE [error |-> Undefined,
        path  |-> Str(unwin(pathRelative(moduleDirPath, realpathSync(r.path))))]

resolveModule(moduleFilePath, importPath) ==
  moduleResult(dirname(moduleFilePath),
               resolveSync(importPath, dirname(moduleFilePath)))

-----------------------------------------------------------------------------
(* resolveImports: the rewriter. *)

\* (0, eval)(text) of the source text of a string literal without escapes.
indirectEval(text) == slice(text, 1, Len(text) - 1)

Patch(source, path) ==
  [from |-> source.start, to |-> source.end,
   text |-> JSONstringify("./" \o path)]

\* The patches pushed for a source resolved as r: none on an error.
pushPatch(source, r) ==
  IF Truthy(r.error) THEN <<>> ELSE <<Patch(source, r.path.value)>>

\* The patches patchSrc pushes for a node: none or one.
patchSrc(node, moduleFilePath, src) ==
  IF node.source.type = "null" THEN <<>>
  ELSE pushPatch(node.source,
         resolveModule(moduleFilePath,
           indirectEval(slice(src, node.source.start, node.source.end))))

\* The patches the ImportExpression visitor pushes for a node.
visitImportExpression(node, moduleFilePath) ==
  IF node.source.type = "Literal"
  THEN pushPatch(node.source, resolveModule(moduleFilePath, node.source.value))
  ELSE <<>>

\* The node types walk.simple is given a visitor for, and what each pushes.
visit(node, moduleFilePath, src) ==
  CASE node.type = "ExportNamedDeclaration" -> patchSrc(node, moduleFilePath, src)
    [] node.type = "ImportDeclaration" -> patchSrc(node, moduleFilePath, src)
    [] node.type = "ImportExpression" -> visitImportExpression(node, moduleFilePath)
    [] OTHER -> <<>>

\* walk.simple over the program's body: `patches` after the walk.
RECURSIVE walkSimple(_, _, _)
walkSimple(body, moduleFilePath, src) ==
  IF body = <<>> THEN <<>>
  ELSE visit(Head(body), moduleFilePath, src)
         \o walkSimple(Tail(body), moduleFilePath, src)

\* The index of a patch with the lowest `from`: the sort ascending.
topPatch_lowest(patches) ==
  CHOOSE i \in DOMAIN patches :
    \A j \in DOMAIN patches : patches[i].from <= patches[j].from

\* The index of a patch with the highest `from`.
topPatch(patches) ==
  CHOOSE i \in DOMAIN patches :
    \A j \in DOMAIN patches : patches[i].from >= patches[j].from

removeAt(seq, i) == SubSeq(seq, 1, i - 1) \o SubSeq(seq, i + 1, Len(seq))

\* patches.sort((a, b) => b.from - a.from), for patches of distinct `from`.
RECURSIVE sortDescending(_)
RECURSIVE sortFrom(_, _)
sortDescending(patches) ==
  IF patches = <<>> THEN <<>> ELSE sortFrom(patches, topPatch(patches))

\* The sorted patches, of which patches[top] is the first.
sortFrom(patches, top) ==
  <<patches[top]>> \o sortDescending(removeAt(patches, top))

applyPatch(src, patch) ==
  slice(src, 0, patch.from) \o patch.text \o slice(src, patch.to, Len(src))

\* The loop over the sorted patches.
RECURSIVE applyPatches(_, _)
applyPatches(src, patches) ==
  IF patches = <<>> THEN src
  ELSE applyPatches(applyPatch(src, Head(patches)), Tail(patches))

\* What resolveImports returns for the outcome `ast` of the parse: { error }
\* or { resolvedCode }, the property not set being undefined.
rewriteOf(moduleFilePath, src, ast) ==
  IF ast.error
  THEN [error |-> Str(SyntaxErrorText), resolvedCode |-> Undefined]
  ELSE [error |-> Undefined,
        resolvedCode |->
          Str(applyPatches(src,
                sortDescending(walkSimple(ast.body, moduleFilePath, src))))]

resolveImports(moduleFilePath, src) ==
  rewriteOf(moduleFilePath, src, acornParse(src))

-----------------------------------------------------------------------------
(* The Cached class and ModuleMiddleware.send. *)

\* crypto.createHash('sha1').update(content).digest('hex'): a digest that
\* is a function of the content and differs for different contents.
sha1hex(content) == "sha1(" \o content \o ")"

etagOf(content) == "\"" \o sha1hex(content) \o "\""

\* new Cached(content, mimetype)
Cached(content, mimetype) ==
  [type    |-> "Cached",
   content |-> content,
   headers |-> ("content-type" :> (mimetype \o "; charset=utf-8"))
                 @@ ("etag" :> etagOf(content))]

\* { ...a, ...b }
spread(a, b) ==
  [k \in DOMAIN a \cup DOMAIN b |-> IF k \in DOMAIN b THEN b[k] ELSE a[k]]

\* An extraHeaders argument that is an object.
HeadersObject(h) == [type |-> "object", map |-> h]

NoExtraHeaders == HeadersObject(<<>>)

\* The headers of an extraHeaders argument: a string is a content-type.
extraHeadersOf(extraHeaders) ==
  IF extraHeaders.type = "string"
  THEN ("content-type" :> extraHeaders.value)
  ELSE extraHeaders.map

\* parseURL(url).pathname: the URL up to its query or fragment.
pathnameOf(url) ==
  LET cuts == Occurrences(url, "?") \cup Occurrences(url, "#")
  IN  IF cuts = {} THEN url ELSE slice(url, 0, Min(cuts))

\* send echoing the pathname of the URL and not the URL: the query is lost.
send_pathnameEcho(request, status, text, extraHeaders) ==
  <<[op |-> "writeHead", status |-> status,
     headers |-> spread(("access-control-allow-origin" :> "*")
                          @@ ("x-request-url" :> pathnameOf(request.url)),
                        extraHeadersOf(extraHeaders))],
    [op |-> "end", text |-> text]>>

\* The calls send makes on res: writeHead, then end.
send(request, status, text, extraHeaders) ==
  <<[op |-> "writeHead", status |-> status,
     headers |-> spread(("access-control-allow-origin" :> "*")
                          @@ ("x-request-url" :> request.url),
                        extraHeadersOf(extraHeaders))],
    [op |-> "end", text |-> text]>>

-----------------------------------------------------------------------------
(* ModuleMiddleware.handleRequest and middleware. *)

\* Whether handleRequest takes the request: the test of line 55.
handles(pathname) == endsWith(pathname, "js") \/ endsWith(pathname, "mjs")

\* The lookup as the documentation has it: by the request's pathname.
cacheLookupKey_byPathname(pathname) == pathname

\* The property key of the lookup `this.cache[path]`: `path` there is the
\* module required on line 1, an object, whose property key is the string
\* "[object Object]" whatever the request.
cacheLookupKey(pathname) == "[object Object]"

\* fs.readFileSync(file, 'utf8'): the file's data, or the error thrown.
readFileSync(file) ==
  IF file \in DOMAIN disk /\ disk[file].exists
  THEN [error |-> FALSE, data |-> disk[file].data]
  ELSE [error |-> TRUE, data |-> ""]

\* respondWith with the if-none-match value compared to the etag as a whole
\* instead of searched for it.
respondWith_exactMatch(request, cached, noneMatch) ==
  IF Truthy(noneMatch) /\ noneMatch.value = cached.headers.etag
  THEN send(request, 304, Null, NoExtraHeaders)
  ELSE send(request, 200, Str(cached.content), HeadersObject(cached.headers))

\* The answer from the entry in hand: lines 85 to 92.
respondWith(request, cached, noneMatch) ==
  IF Truthy(noneMatch) /\ indexOf(noneMatch.value, cached.headers.etag) > -1
  THEN send(request, 304, Null, NoExtraHeaders)
  ELSE send(request, 200, Str(cached.content), HeadersObject(cached.headers))

respond(request, cached) ==
  respondWith(request, cached, Get(request.headers, "if-none-match"))

\* What handleRequest does: what it returns, the calls it makes on res,
\* this.cache afterwards, the pathnames it arms a watcher for and the
\* outcomes of its reads of files.
Outcome(returned, calls, store, armed, fileReads) ==
  [returned |-> returned, calls |-> calls, cache |-> store, armed |-> armed,
   reads |-> fileReads]

\* Lines 76 to 92: the entry is stored, the watcher armed and the request
\* answered from the entry.
storeAndRespond(request, pathname, store, file, entry) ==
  Outcome(TRUE, respond(request, entry), Put(store, pathname, entry),
          {pathname}, <<file>>)

\* afterResolve without the `return true` after the 500: the request is
\* also reported as not handled.
afterResolve_fallsThrough(request, pathname, store, file, r) ==
  IF Truthy(r.error)
  THEN Outcome(FALSE, send(request, 500, r.error, NoExtraHeaders), store, {},
               <<file>>)
  ELSE storeAndRespond(request, pathname, store, file,
                       Cached(r.resolvedCode.value, "application/javascript"))

\* afterResolve as the tolerant variant of handleRequest has it: on an
\* error the source is served, and cached, as it was read.
afterResolve_tolerant(request, pathname, store, file, r) ==
  storeAndRespond(request, pathname, store, file,
    Cached(IF Truthy(r.error) THEN file.data ELSE r.resolvedCode.value,
           "application/javascript"))

\* Lines 71 to 92, with the outcome r of resolveImports.
afterResolve(request, pathname, store, file, r) ==
  IF Truthy(r.error)
  THEN Outcome(TRUE, send(request, 500, r.error, NoExtraHeaders), store, {},
               <<file>>)
  ELSE storeAndRespond(request, pathname, store, file,
                       Cached(r.resolvedCode.value, "application/javascript"))

\* afterRead answering a file that cannot be read with a 404 of its own.
afterRead_404(request, pathname, store, moduleFilePath, file) ==
  IF file.error
  THEN Outcome(TRUE, send(request, 404, Str("Not found"), NoExtraHeaders),
               store, {}, <<file>>)
  ELSE afterResolve(request, pathname, store, file,
                    resolveImports(moduleFilePath, file.data))

\* Lines 62 to 92, with the outcome `file` of the read.
afterRead(request, pathname, store, moduleFilePath, file) ==
  IF file.error THEN Outcome(FALSE, <<>>, store, {}, <<file>>)
  ELSE afterResolve(request, pathname, store, file,
                    resolveImports(moduleFilePath, file.data))

\* Lines 61 to 92: no entry was found.
loadModule(request, pathname, store, moduleFilePath) ==
  afterRead(request, pathname, store, moduleFilePath,
            readFileSync(moduleFilePath))

\* Lines 59 to 92, with the value `cached` of the lookup.
afterLookup(request, pathname, store, cached) ==
  IF ~Truthy(cached)
  THEN loadModule(request, pathname, store,
                  unwin(pathJoin(unwin(Root), pathname)))
  ELSE Outcome(TRUE, respond(request, cached), store, {}, <<>>)

\* Lines 55 to 92, with the pathname of the request's URL.
handlePathname(request, pathname, store) ==
  IF ~handles(pathname) THEN Outcome(FALSE, <<>>, store, {}, <<>>)
  ELSE afterLookup(request, pathname, store,
                   Get(store, cacheLookupKey(pathname)))

\* handleRequest(req, res) with this.cache = store.
handleRequest(request, store) ==
  handlePathname(request, pathnameOf(request.url), store)

-----------------------------------------------------------------------------
(* The server: requests, changes of the served files by other processes,   *)
(* and the callbacks of the armed watchers.                                *)

\* The pathnames requests name, and the URLs they come in.
Pathnames == {"/a.js", "/b.mjs", "/cjs", "/d.css"}

URLs == Pathnames \cup {"/a.js?v=1"}

\* The pathnames whose file other processes write and remove.
Writable == {"/a.js"}

\* What other processes write to a served module: the last is no module,
\* and the two before it differ only in the quotes of the specifier.
Contents ==
  {"import 'pkg';import 'nope';export * from 'pkg';import('./b.mjs');",
   "import './b.mjs';",
   "import \"./b.mjs\";",
   "import from;"}

File(data) == [exists |-> TRUE, data |-> data]

NoFile == [exists |-> FALSE, data |-> ""]

\* The manifests the server is started with.
ServerManifests ==
  {m \in Manifests : DOMAIN m \in {{"main", "module"}, {"main", "jsnext"}}}

NoRequest == [url |-> "", headers |-> <<>>]

NotRun == [call |-> "none"]

\* The etags a client holds for a pathname: that of the pathname's cache
\* entry, and that of the last response when it answered the same pathname.
KnownEtags(pathname) ==
  {cache[k].headers.etag :
     k \in {x \in DOMAIN cache : x = pathname /\ Truthy(cache[x])}}
    \cup {c.headers["etag"] :
            c \in {x \in {res[i] : i \in DOMAIN res} :
                     /\ x.op = "writeHead"
                     /\ "etag" \in DOMAIN x.headers
                     /\ pathnameOf(req.url) = pathname}}

\* The headers a request for a URL comes with: no if-none-match, an empty
\* one, a held etag, or a held etag in a list after another.
RequestHeaders(url) ==
  {<<>>, "if-none-match" :> Str("")}
    \cup {"if-none-match" :> Str(e) : e \in KnownEtags(pathnameOf(url))}
    \cup {"if-none-match" :> Str("W/\"0\", " \o e) :
            e \in KnownEtags(pathnameOf(url))}

Requests ==
  UNION {{[url |-> u, headers |-> h] : h \in RequestHeaders(u)} : u \in URLs}

Init ==
  /\ disk \in {[f \in {pathJoin(Root, pn) : pn \in Pathnames} |->
                  CASE f = pathJoin(Root, "/a.js") -> a
                    [] f = pathJoin(Root, "/b.mjs") -> File("export default a;")
                    [] f = pathJoin(Root, "/cjs") -> File("import 'pkg';")
                    [] OTHER -> File("body{}")] :
               a \in {File(d) : d \in Contents} \cup {NoFile}}
  /\ manifest \in ServerManifests
  /\ cache = <<>>
  /\ watchers = [pn \in Pathnames |-> 0]
  /\ pending = [pn \in Pathnames |-> 0]
  /\ req = NoRequest
  /\ res = <<>>
  /\ handled = FALSE
  /\ nextCalls = 0
  /\ reads = <<>>
  /\ code = ""
  /\ out = NotRun

RECURSIVE SumOver(_, _)
SumOver(f, S) ==
  IF S = {} THEN 0
  ELSE LET x == CHOOSE y \in S : TRUE IN f[x] + SumOver(f, S \ {x})

ArmedWatchers == SumOver(watchers, Pathnames)

\* middleware(req, res, next), run to its end for one request: every
\* request is given a new res.
Middleware(request) ==
  \E h \in {handleRequest(request, cache)} :
    /\ h.armed # {} => ArmedWatchers < MaxWatchers
    /\ req' = request
    /\ res' = h.calls
    /\ handled' = h.returned
    /\ nextCalls' = IF ~h.returned THEN 1 ELSE 0
    /\ cache' = h.cache
    /\ watchers' = [pn \in Pathnames |->
                      watchers[pn] + IF pn \in h.armed THEN 1 ELSE 0]
    /\ reads' = h.reads
    /\ UNCHANGED <<disk, manifest, pending, code, out>>

\* middleware(req, res, next) for a request that loads its module, while
\* another process writes the module's file after the read of line 64 and
\* before fs.watch of line 79: the watchers armed before are notified of
\* the write, the one this request arms is not.
MiddlewareDuringWrite(request, data) ==
  \E h \in {handleRequest(request, cache)} :
    /\ h.armed # {}
    /\ h.armed \subseteq Writable
    /\ ArmedWatchers < MaxWatchers
    /\ req' = request
    /\ res' = h.calls
    /\ handled' = h.returned
    /\ nextCalls' = 0
    /\ cache' = h.cache
    /\ watchers' = [pn \in Pathnames |->
                      watchers[pn] + IF pn \in h.armed THEN 1 ELSE 0]
    /\ reads' = h.reads
    /\ disk' = [f \in DOMAIN disk |->
                  IF f \in {pathJoin(Root, pn) : pn \in h.armed}
                  THEN File(data) ELSE disk[f]]
    /\ pending' = [pn \in Pathnames |->
                     IF pn \in h.armed THEN watchers[pn] ELSE pending[pn]]
    /\ UNCHANGED <<manifest, code, out>>

\* Another process writes a served file: every watcher armed on it is
\* notified.
WriteFile(pn, data) ==
  /\ disk' = [disk EXCEPT ![pathJoin(Root, pn)] = File(data)]
  /\ pending' = [pending EXCEPT ![pn] = watchers[pn]]
  /\ UNCHANGED <<manifest, cache, watchers, req, res, handled, nextCalls,
                 reads, code, out>>

\* Another process removes a served file.
Unlink(pn) ==
  /\ disk[pathJoin(Root, pn)].exists
  /\ disk' = [disk EXCEPT ![pathJoin(Root, pn)] = NoFile]
  /\ pending' = [pending EXCEPT ![pn] = watchers[pn]]
  /\ UNCHANGED <<manifest, cache, watchers, req, res, handled, nextCalls,
                 reads, code, out>>

\* The callback given to fs.watch on line 79, run for one notified watcher:
\* it closes the watcher and sets the entry to null.
WatchCallback(pn) ==
  /\ pending[pn] > 0
  /\ watchers' = [watchers EXCEPT ![pn] = @ - 1]
  /\ pending' = [pending EXCEPT ![pn] = @ - 1]
  /\ cache' = Put(cache, pn, Null)
  /\ UNCHANGED <<disk, manifest, req, res, handled, nextCalls, reads,
                 code, out>>

Next ==
  \/ \E request \in Requests : Middleware(request)
  \/ \E request \in Requests, data \in Contents :
       MiddlewareDuringWrite(request, data)
  \/ \E pn \in Writable, data \in Contents : WriteFile(pn, data)
  \/ \E pn \in Writable : Unlink(pn)
  \/ \E pn \in Pathnames : WatchCallback(pn)

Spec == Init /\ [][Next]_vars

-----------------------------------------------------------------------------
(* The rewriter and the resolver on their own: resolveImports and          *)
(* resolveModule applied, for the module /a.js of the served directory, to *)
(* every module text of up to MaxStmts statements and every specifier, on  *)
(* every manifest of the installed package.                                *)

\* The source text of the specifiers modules are written with.
SpecifierLiterals == {"'pkg'", "'nope'", "\"./b.mjs\""}

\* The statements modules are written with; the last is no statement.
Statements ==
  {k[1] \o l \o k[2] :
     k \in {<<"import ", ";">>, <<"export {a} from ", ";">>,
            <<"export * from ", ";">>, <<"import(", ");">>},
     l \in SpecifierLiterals}
    \cup {"export {};", "import(a);", "a;", "import from;"}

RECURSIVE Join(_)
Join(texts) == IF texts = <<>> THEN "" ELSE Head(texts) \o Join(Tail(texts))

Modules ==
  {Join(q) : q \in UNION {[1..n -> Statements] : n \in 0..MaxStmts}}

ModulePath == pathJoin(Root, "/a.js")

InitRewrite ==
  /\ disk = [f \in {pathJoin(Root, pn) : pn \in Pathnames} |->
               IF f = ModulePath THEN NoFile ELSE File("a;")]
  /\ manifest \in Manifests
  /\ cache = <<>>
  /\ watchers = [pn \in Pathnames |-> 0]
  /\ pending = [pn \in Pathnames |-> 0]
  /\ req = NoRequest
  /\ res = <<>>
  /\ handled = FALSE
  /\ nextCalls = 0
  /\ reads = <<>>
  /\ code \in Modules
  /\ out = NotRun

\* resolveImports(moduleFilePath, code) is called.
RunResolveImports ==
  /\ out = NotRun
  /\ out' = [call |-> "resolveImports",
             result |-> resolveImports(ModulePath, code)]
  /\ UNCHANGED <<disk, manifest, code>>
  /\ UNCHANGED serverVars

\* resolveModule(moduleFilePath, importPath) is called.
RunResolveModule(importPath) ==
  /\ out = NotRun
  /\ out' = [call |-> "resolveModule", importPath |-> importPath,
             result |-> resolveModule(ModulePath, importPath)]
  /\ UNCHANGED <<disk, manifest, code>>
  /\ UNCHANGED serverVars

NextRewrite ==
  \/ RunResolveImports
  \/ \E l \in SpecifierLiterals : RunResolveModule(indirectEval(l))

SpecRewrite == InitRewrite /\ [][NextRewrite]_vars

-----------------------------------------------------------------------------
(* The patch loop of resolveImports, lines 144 to 146, applied to every    *)
(* source text of up to MaxSrcLen characters and every sequence of up to   *)
(* MaxPatches non-overlapping patches, in every order of discovery.        *)

\* The source texts: their characters all differ, so that a character
\* misplaced shows.
SourceTexts == {slice("abcdefgh", 0, n) : n \in 0..MaxSrcLen}

\* The replacement texts: shorter than, as long as and longer than what
\* they replace.
PatchTexts == {"", "Q", "RST"}

\* The patches of a source text: each replaces a non-empty range of it (a
\* specifier literal has its two quotes at least).
PatchesOf(src) ==
  {[from |-> r[1], to |-> r[2], text |-> t] :
     r \in {x \in (0..Len(src)) \X (0..Len(src)) : x[1] < x[2]},
     t \in PatchTexts}

\* The patch overlaps none of the sequence.
Apart(p, ps) ==
  \A i \in DOMAIN ps : p.to <= ps[i].from \/ ps[i].to <= p.from

\* The sequences of n patches of the source text, no two overlapping, in
\* every order.
RECURSIVE NonOverlapping(_, _)
NonOverlapping(src, n) ==
  IF n = 0 THEN {<<>>}
  ELSE UNION {{Append(ps, p) : p \in {q \in PatchesOf(src) : Apart(q, ps)}} :
                ps \in NonOverlapping(src, n - 1)}

\* `patches` as the walk may leave it for a source text.
DiscoveredPatches(src) ==
  UNION {NonOverlapping(src, n) : n \in 0..MaxPatches}

InitPatch ==
  /\ disk = [f \in {pathJoin(Root, pn) : pn \in Pathnames} |-> NoFile]
  /\ manifest = <<>>
  /\ cache = <<>>
  /\ watchers = [pn \in Pathnames |-> 0]
  /\ pending = [pn \in Pathnames |-> 0]
  /\ req = NoRequest
  /\ res = <<>>
  /\ handled = FALSE
  /\ nextCalls = 0
  /\ reads = <<>>
  /\ code \in SourceTexts
  /\ out \in {[call |-> "walk", patches |-> ps] : ps \in DiscoveredPatches(code)}

\* The loop of lines 144 to 146 over the sorted patches.
RunApplyPatches ==
  /\ out.call = "walk"
  /\ out' = [call |-> "applyPatches", patches |-> out.patches,
             result |-> applyPatches(code, sortDescending(out.patches))]
  /\ UNCHANGED <<disk, manifest, code>>
  /\ UNCHANGED serverVars

NextPatch == RunApplyPatches

SpecPatch == InitPatch /\ [][NextPatch]_vars

-----------------------------------------------------------------------------
(* What the claims speak of. *)

FileOf(pathname) == pathJoin(Root, pathname)

\* The request names a module (by the documented extensions) whose file
\* can be read.
NamesReadableModule(request) ==
  /\ endsWith(pathnameOf(request.url), ".js")
       \/ endsWith(pathnameOf(request.url), ".mjs")
  /\ ~readFileSync(FileOf(pathnameOf(request.url))).error

SourceOf(request) == readFileSync(FileOf(pathnameOf(request.url))).data

\* The source of the requested module is a syntactically valid module.
Parses(request) == ~acornParse(SourceOf(request)).error

\* The rewrite of the requested module's source as it is on disk.
RewriteOf(request) ==
  resolveImports(FileOf(pathnameOf(request.url)), SourceOf(request)).resolvedCode

\* res holds exactly one response: one writeHead followed by one end.
IsResponse(calls) ==
  /\ Len(calls) = 2
  /\ calls[1].op = "writeHead"
  /\ calls[2].op = "end"

\* The if-none-match header of the request contains the etag.
SendsEtag(request, etag) ==
  /\ "if-none-match" \in DOMAIN request.headers
  /\ Occurrences(request.headers["if-none-match"].value, etag) # {}

\* The request's pathname has an entry in the cache.
HasEntry(store, pathname) ==
  pathname \in DOMAIN store /\ store[pathname].type = "Cached"

-----------------------------------------------------------------------------
(* C1 *)

\* C1: a request for a .js/.mjs path that has a cache entry is answered from
\* that entry: handleRequest reads no file, stores no entry and arms no
\* watcher for it.
C1_CachedPathIsNotReloaded ==
  \A r \in Requests :
    (NamesReadableModule(r) /\ HasEntry(cache, pathnameOf(r.url)))
      => /\ handleRequest(r, cache).reads = <<>>
         /\ handleRequest(r, cache).armed = {}
         /\ handleRequest(r, cache).cache = cache

-----------------------------------------------------------------------------
(* C2 *)

\* What C2 asks of the outcome h of a request, `entry` being the path's
\* entry after it.
ConditionalAnswer(r, h, entry) ==
  /\ h.returned
  /\ IsResponse(h.calls)
  /\ entry.content = RewriteOf(r).value
  /\ IF SendsEtag(r, entry.headers["etag"])
     THEN /\ h.calls[1].status = 304
          /\ h.calls[2].text = Null
     ELSE /\ h.calls[1].status = 200
          /\ h.calls[2].text = Str(entry.content)
          /\ "content-type" \in DOMAIN h.calls[1].headers
          /\ "etag" \in DOMAIN h.calls[1].headers
          /\ h.calls[1].headers["content-type"] = entry.headers["content-type"]
          /\ h.calls[1].headers["etag"] = entry.headers["etag"]

\* C2: in every reachable state, whatever the cache holds, a request for a
\* module whose file is read and rewritten without error is answered 304
\* with no body when its if-none-match header contains the etag of the
\* path's entry, and otherwise 200 with the rewritten content as body and
\* the entry's content-type and etag headers.
C2_ConditionalResponse ==
  \A r \in Requests :
    (NamesReadableModule(r) /\ Parses(r))
      => \E h \in {handleRequest(r, cache)} :
           /\ HasEntry(h.cache, pathnameOf(r.url))
           /\ ConditionalAnswer(r, h, h.cache[pathnameOf(r.url)])

\* A request that read its file was answered 304.
C2_Witness ==
  /\ handled
  /\ reads # <<>>
  /\ IsResponse(res)
  /\ res[1].status = 304
  /\ SendsEtag(req, cache[pathnameOf(req.url)].headers["etag"])

-----------------------------------------------------------------------------
(* C3 *)

\* The last response was a 200 for the pathname.
Answered200(pathname) ==
  /\ req # NoRequest
  /\ pathnameOf(req.url) = pathname
  /\ IsResponse(res)
  /\ res[1].status = 200

\* The request is answered from an entry holding the rewrite of the file as
\* it is on disk now: with a 200 carrying it unless the request sent the
\* entry's etag.
AnsweredFresh(r, h, entry) ==
  /\ entry.content = RewriteOf(r).value
  /\ h.returned
  /\ IsResponse(h.calls)
  /\ ~SendsEtag(r, entry.headers["etag"])
       => /\ h.calls[1].status = 200
          /\ h.calls[2].text = RewriteOf(r)
          /\ h.calls[1].headers["etag"] = entry.headers["etag"]

\* C3, as amended: in every state reached after a 200 response for a path,
\* however many times the file was modified and requested before, a new
\* request for the path (its file read and rewritten without error) is
\* answered with the rewrite of the file as it is on disk now, and the new
\* etag differs from the etag of that earlier response whenever the
\* rewritten content differs from the content that response carried.
C3_FreshContentAndEtag ==
  \A r \in Requests :
    (/\ Answered200(pathnameOf(r.url))
     /\ NamesReadableModule(r)
     /\ Parses(r))
      => \E h \in {handleRequest(r, cache)} :
           /\ HasEntry(h.cache, pathnameOf(r.url))
           /\ \E entry \in {h.cache[pathnameOf(r.url)]} :
                /\ AnsweredFresh(r, h, entry)
                /\ entry.content # res[2].text.value
                     => entry.headers["etag"] # res[1].headers["etag"]

\* C3, as claimed: the same, with the new etag differing from the earlier
\* one whenever the file's content differs from the content read for the
\* earlier response.
C3_EtagDiffersWheneverFileDiffers ==
  \A r \in Requests :
    (/\ Answered200(pathnameOf(r.url))
     /\ reads # <<>>
     /\ NamesReadableModule(r)
     /\ Parses(r))
      => \E h \in {handleRequest(r, cache)} :
           /\ HasEntry(h.cache, pathnameOf(r.url))
           /\ \E entry \in {h.cache[pathnameOf(r.url)]} :
                /\ AnsweredFresh(r, h, entry)
                /\ SourceOf(r) # reads[1].data
                     => entry.headers["etag"] # res[1].headers["etag"]

\* /a.js was requested, modified while one watcher was armed on it, and
\* requested again: the 200 response in hand carries the rewrite of the file
\* as it is now.
C3_Witness ==
  /\ Answered200("/a.js")
  /\ watchers["/a.js"] = 2
  /\ pending["/a.js"] = 1
  /\ NamesReadableModule(req)
  /\ Parses(req)
  /\ res[2].text = RewriteOf(req)
  /\ res[1].headers["etag"] = etagOf(RewriteOf(req).value)

-----------------------------------------------------------------------------
(* C4 *)

\* C4: handleRequest handles a request only if its pathname ends in .js or
\* .mjs: for any other pathname it returns false, writes no response and
\* leaves the cache and the watches as they are.
C4_OnlyJsAndMjsHandled ==
  \A r \in Requests :
    ~(endsWith(pathnameOf(r.url), ".js") \/ endsWith(pathnameOf(r.url), ".mjs"))
      => \E h \in {handleRequest(r, cache)} :
           /\ ~h.returned
           /\ h.calls = <<>>
           /\ h.cache = cache
           /\ h.armed = {}

-----------------------------------------------------------------------------
(* C5 *)

\* C5: for every request exactly one of two outcomes occurs: handleRequest
\* writes exactly one response (one writeHead followed by one end) and
\* returns true, and next() is not called; or it writes nothing and returns
\* false, and middleware calls next() exactly once.
C5_AnsweredOrPassedOn ==
  req # NoRequest
    => \/ handled /\ IsResponse(res) /\ nextCalls = 0
       \/ ~handled /\ res = <<>> /\ nextCalls = 1

\* A request was answered 200 and not passed on.
C5_Witness ==
  /\ req # NoRequest
  /\ handled
  /\ IsResponse(res)
  /\ res[1].status = 200
  /\ nextCalls = 0

-----------------------------------------------------------------------------
(* C6 *)

\* C6: when the file of a requested .js/.mjs path cannot be read,
\* handleRequest declines: it returns false, writes no status, header or
\* body, creates no cache entry and arms no watch.
C6_MissingFileDeclined ==
  \A r \in Requests :
    (/\ endsWith(pathnameOf(r.url), ".js") \/ endsWith(pathnameOf(r.url), ".mjs")
     /\ readFileSync(FileOf(pathnameOf(r.url))).error)
      => \E h \in {handleRequest(r, cache)} :
           /\ ~h.returned
           /\ h.calls = <<>>
           /\ h.cache = cache
           /\ h.armed = {}

\* /a.js was requested while its file did not exist: the read failed and
\* the request was passed on, nothing written.
C6_Witness ==
  /\ pathnameOf(req.url) = "/a.js"
  /\ ~disk[FileOf("/a.js")].exists
  /\ reads = <<[error |-> TRUE, data |-> ""]>>
  /\ ~handled
  /\ res = <<>>
  /\ nextCalls = 1

-----------------------------------------------------------------------------
(* C7 *)

\* C7: when the source of the requested file is not a syntactically valid
\* module, handleRequest answers 500 with the parser's message as body and
\* reports the request handled; it stores no cache entry and arms no watch,
\* and it read and parsed the file for this very request.
C7_ParseErrorIs500 ==
  \A r \in Requests :
    (NamesReadableModule(r) /\ ~Parses(r))
      => \E h \in {handleRequest(r, cache)} :
           /\ h.returned
           /\ IsResponse(h.calls)
           /\ h.calls[1].status = 500
           /\ h.calls[2].text = Str(SyntaxErrorText)
           /\ h.cache = cache
           /\ h.armed = {}
           /\ h.reads = <<readFileSync(FileOf(pathnameOf(r.url)))>>

\* A request for a file that is no module was answered 500 with the
\* parser's message, and the path has no cache entry.
C7_Witness ==
  /\ handled
  /\ IsResponse(res)
  /\ res[1].status = 500
  /\ res[2].text = Str(SyntaxErrorText)
  /\ reads # <<>>
  /\ acornParse(reads[1].data).error
  /\ ~HasEntry(cache, pathnameOf(req.url))

-----------------------------------------------------------------------------
(* The rewrite the claims describe. *)

\* The node kinds whose specifier is to be rewritten: import declarations,
\* named and export-all re-exports, dynamic imports.
SpecifiedKinds ==
  {"ImportDeclaration", "ExportNamedDeclaration", "ExportAllDeclaration",
   "ImportExpression"}

\* The node has a string literal as its specifier.
HasSpecifier(node) ==
  node.type \in SpecifiedKinds /\ node.source.type = "Literal"

\* The node's specifier resolves from the module.
Resolves(moduleFilePath, node) ==
  ~Truthy(resolveModule(moduleFilePath, node.source.value).error)

\* The source with the node's specifier, when it has one that resolves,
\* replaced by the JSON-quoted resolved relative path prefixed with "./".
RewrittenAt(moduleFilePath, src, node) ==
  IF HasSpecifier(node) /\ Resolves(moduleFilePath, node)
  THEN slice(src, 0, node.source.start)
         \o JSONstringify("./" \o resolveModule(moduleFilePath,
                                                node.source.value).path.value)
         \o slice(src, node.source.end, Len(src))
  ELSE src

\* The nodes of the body rewritten from the last to the first, so that the
\* offsets of the nodes still to be rewritten stay valid.
RECURSIVE SpecifiedRewriteBody(_, _, _)
SpecifiedRewriteBody(body, moduleFilePath, src) ==
  IF body = <<>> THEN src
  ELSE SpecifiedRewriteBody(SubSeq(body, 1, Len(body) - 1), moduleFilePath,
                            RewrittenAt(moduleFilePath, src, body[Len(body)]))

SpecifiedRewrite(moduleFilePath, src) ==
  SpecifiedRewriteBody(acornParse(src).body, moduleFilePath, src)

\* What resolveImports is to return for the module text.
SpecifiedResult(moduleFilePath, src) ==
  [error |-> Undefined,
   resolvedCode |-> Str(SpecifiedRewrite(moduleFilePath, src))]

\* resolveImports was called on a module text that parses.
RewroteValidModule ==
  /\ out.call = "resolveImports"
  /\ ~acornParse(code).error

-----------------------------------------------------------------------------
(* C8 *)

\* C8: when a specifier of a module fails to resolve, resolveImports
\* returns no error and the code in which every specifier that resolves is
\* rewritten and the failed ones are as written, whatever the mix and order
\* of import declarations, re-exports and literal dynamic imports; and a
\* request whose file read gave this module text is answered 200 with that
\* code.
C8_FailedSpecifierSkippedOnly ==
  (/\ RewroteValidModule
   /\ \E i \in DOMAIN acornParse(code).body :
        /\ HasSpecifier(acornParse(code).body[i])
        /\ ~Resolves(ModulePath, acornParse(code).body[i]))
    => /\ out.result = SpecifiedResult(ModulePath, code)
       /\ \E h \in {afterRead([url |-> "/a.js", headers |-> <<>>], "/a.js",
                              cache, ModulePath,
                              [error |-> FALSE, data |-> code])} :
            /\ h.returned
            /\ IsResponse(h.calls)
            /\ h.calls[1].status = 200
            /\ h.calls[2].text = Str(SpecifiedRewrite(ModulePath, code))

-----------------------------------------------------------------------------
(* C9 *)

\* The entry file the documented precedence selects: module, else jsnext,
\* else main.
PreferredEntry ==
  IF "module" \in DOMAIN manifest THEN manifest["module"].value
  ELSE IF "jsnext" \in DOMAIN manifest THEN manifest["jsnext"].value
  ELSE manifest["main"].value

\* C9: for every manifest defining some of main, module and jsnext (and no
\* other field), the package specifier resolves to the module target if
\* module is defined, otherwise to the jsnext target if jsnext is defined,
\* otherwise to the main target.
C9_EntryPointPrecedence ==
  (/\ out.call = "resolveModule"
   /\ out.importPath = PackageName
   /\ DOMAIN manifest # {}
   /\ DOMAIN manifest \subseteq {"main", "module", "jsnext"})
    => out.result =
         [error |-> Undefined,
          path  |-> Str("node_modules/" \o PackageName \o "/" \o PreferredEntry)]

-----------------------------------------------------------------------------
(* C10 *)

\* C10: for a module whose specifiers all resolve, resolveImports returns
\* the source in which the specifier of every import declaration, of every
\* re-export with a source (named and export-all) and of every dynamic
\* import of a string literal is replaced by the JSON-quoted resolved
\* relative path prefixed with "./", and nothing else is changed.
C10_EverySpecifierRewritten ==
  (/\ RewroteValidModule
   /\ \A i \in DOMAIN acornParse(code).body :
        HasSpecifier(acornParse(code).body[i])
          => Resolves(ModulePath, acornParse(code).body[i]))
    => out.result = SpecifiedResult(ModulePath, code)

-----------------------------------------------------------------------------
(* C11 *)

\* The two headers send gives every response.
FixedHeaders == {"access-control-allow-origin", "x-request-url"}

\* C11: every response handleRequest writes, whatever its status, carries
\* access-control-allow-origin "*" and x-request-url equal to the URL of
\* the request it answers, the status being 200, 304 or 500; and no cache
\* entry has one of these two among its headers, so that the spread of an
\* entry's headers over them changes neither.
C11_FixedHeadersOnEveryResponse ==
  \A r \in Requests :
    \E h \in {handleRequest(r, cache)} :
      /\ h.calls # <<>>
           => /\ IsResponse(h.calls)
              /\ h.calls[1].status \in {200, 304, 500}
              /\ FixedHeaders \subseteq DOMAIN h.calls[1].headers
              /\ h.calls[1].headers["access-control-allow-origin"] = "*"
              /\ h.calls[1].headers["x-request-url"] = r.url
      /\ \A pn \in DOMAIN h.cache :
           HasEntry(h.cache, pn)
             => DOMAIN h.cache[pn].headers \cap FixedHeaders = {}

\* A request with a query was answered 200 from its entry: the response has
\* the entry's headers and the two fixed ones, the URL echoed with its query.
C11_Witness ==
  /\ handled
  /\ IsResponse(res)
  /\ req.url = "/a.js?v=1"
  /\ res[1].status = 200
  /\ res[1].headers["etag"] = cache["/a.js"].headers["etag"]
  /\ res[1].headers["access-control-allow-origin"] = "*"
  /\ res[1].headers["x-request-url"] = "/a.js?v=1"

-----------------------------------------------------------------------------
(* C12 *)

\* C12: requests and file changes never overlapping, in every state each
\* path has exactly one armed watch when it has a cache entry and none when
\* it has no entry, and no watch has more than one notification to deliver
\* (a watch fires at most once: its callback closes it and removes the
\* entry).
C12_WatchesDoNotAccumulate ==
  \A pn \in Pathnames :
    /\ watchers[pn] = IF HasEntry(cache, pn) THEN 1 ELSE 0
    /\ pending[pn] <= watchers[pn]

-----------------------------------------------------------------------------
(* C13 *)

\* The patch moved by the change of length a patch applied before it made:
\* a patch behind the applied one moves by the difference, one before it
\* stays.
Remeasured(q, p) ==
  IF q.from >= p.to
  THEN [q EXCEPT !.from = @ + Len(p.text) - (p.to - p.from),
                 !.to   = @ + Len(p.text) - (p.to - p.from)]
  ELSE q

\* The patches applied one at a time in the order given, the offsets of
\* those still to apply measured again after each.
RECURSIVE ApplyRemeasured(_, _)
ApplyRemeasured(src, ps) ==
  IF ps = <<>> THEN src
  ELSE ApplyRemeasured(
         slice(src, 0, Head(ps).from) \o Head(ps).text
           \o slice(src, Head(ps).to, Len(src)),
         [i \in 1..(Len(ps) - 1) |-> Remeasured(ps[i + 1], Head(ps))])

\* Every order of the patches.
Orders(ps) ==
  {[i \in DOMAIN ps |-> ps[f[i]]] :
     f \in {g \in [DOMAIN ps -> DOMAIN ps] :
              \A i, j \in DOMAIN ps : g[i] = g[j] => i = j}}

\* C13: for every source text and every sequence of non-overlapping
\* patches, in whatever order discovered, the text the loop of
\* resolveImports gives (the patches sorted by descending `from` and
\* applied against the original offsets) is the text that applying the
\* patches one at a time, in any order, with the offsets measured again
\* after each, gives.
C13_DescendingEqualsRemeasured ==
  out.call = "applyPatches"
    => \A ps \in Orders(out.patches) :
         out.result = ApplyRemeasured(code, ps)

\* Three patches, discovered in ascending order, the first changing the
\* length of the text, were applied.
C13_Witness ==
  /\ out.call = "applyPatches"
  /\ Len(out.patches) = 3
  /\ out.patches[1].from < out.patches[2].from
  /\ out.patches[2].from < out.patches[3].from
  /\ Len(out.patches[1].text) # out.patches[1].to - out.patches[1].from
  /\ out.result = ApplyRemeasured(code, out.patches)
  /\ out.result # code

-----------------------------------------------------------------------------
(* C14 *)

\* C14: whenever a path has a cache entry and every notification of a
\* change of its file has been delivered, the entry's content is the
\* rewrite of the file as it is on disk; also when another process wrote
\* the file between the handler's read of it and the arming of the watch.
C14_EntryIsRewriteOfFile ==
  \A pn \in Pathnames :
    (HasEntry(cache, pn) /\ pending[pn] = 0)
      => /\ disk[FileOf(pn)].exists
         /\ resolveImports(FileOf(pn), disk[FileOf(pn)].data).resolvedCode
              = Str(cache[pn].content)

=============================================================================
